---- MODULE Spec2Model ----
(***************************************************************************)
(* Library management system: Book, Member and Library of                  *)
(* src/library_management_system.py as a state machine over a heap of      *)
(* objects.  Book and Member objects are referred to by their index in     *)
(* the sequences books and members; a Member's held list is a list object  *)
(* of its own (an index into lists), because Member.__init__ keeps the     *)
(* list it is given by reference.                                          *)
(***************************************************************************)
EXTENDS Integers, Sequences, FiniteSets, TLC

\* ------------------------------------------------------------ bounds
\* Book objects and Member objects the caller constructs.
MaxBooks == 2
MaxMembers == 2

\* The longest email argument tried.
MaxEmailLen == 7

\* The borrowing limit of Member.borrow_book.
MaxBorrow == 3

\* The year datetime.datetime.now().year yields.
CurrentYear == 2026

\* ------------------------------------------------------------ inputs
BookIds == {"B001", "B008"}
MemberIds == {"M001", "M005"}
Libs == {"L1", "L2"}
PubYears == {1960, 2999}

\* A list the caller builds and passes as books_borrowed (the default, None,
\* is NewMemberDefault): longer than the borrowing limit, with repeats.
CallerLists == { <<"B001", "B008", "B001", "B008">> }

\* Strings the code takes apart (author fields, search queries) are sequences
\* of one-character strings.
HarperLee == << "H", "a", "r", "p", "e", "r", " ", "L", "e", "e" >>
LeeroyJenkins ==
  << "L", "e", "e", "r", "o", "y", " ", "J", "e", "n", "k", "i", "n", "s" >>

\* The author argument of Book(...): two authors sharing the letters "lee",
\* one written with capitals, a tab and a run of blanks, one single name.
Authors ==
  { HarperLee, LeeroyJenkins,
    << "H", "A", "R", "P", "E", "R", "\t", " ", "L", "E", "E", " " >>,
    << "l", "e", "e" >> }

\* The author argument of the search; None is the absent query.
\* (a value that is no sequence of characters)
None == << "None" >>
AuthorQueries ==
  { None, << >>, << " " >>,
    << "l", "e", "e" >>, << "L", "E", "E" >>, << "L", "e", "e" >>,
    << "h", "a", "r" >>, << "h", "a", "r", "p", "e", "r" >>,
    << "h", "a", "r", "p", "e", "r", " ", "l", "e", "e" >>,
    << "j", "e", "n", "k", "i", "n", "s" >>, << "l", "e", "e", "r" >> }

\* The email argument of Member(...): every string of at most MaxEmailLen
\* characters over a letter, "@" and ".".
EmailChars == { "a", "@", "." }
Emails == UNION { [ 1..n -> EmailChars ] : n \in 0..MaxEmailLen }

UserExampleCom ==
  << "u", "s", "e", "r", "@", "e", "x", "a", "m", "p", "l", "e", ".", "c", "o", "m" >>

\* The identifier pair Library.checkout_book special-cases.
SpecialBook == "B008"
SpecialMember == "M005"

VARIABLES
  books,        \* Seq of [book_id, author, is_available]: the Book objects
  members,      \* Seq of [member_id, books_borrowed]: the Member objects
  lists,        \* Seq of Seq(BookIds): the list objects behind books_borrowed
  callerLists,  \* the list objects the caller built and still refers to
  libs,         \* Libs -> [books: id -> Book object, members: id -> Member object]
  book_count,   \* Library.book_count (class variable)
  member_count, \* Library.member_count (class variable)
  book_adds,    \* history: the add_book calls that have returned True
  member_adds,  \* history: the add_member calls that have returned True
  email         \* input: the email argument the caller passes to Member(...)

vars ==
  << books, members, lists, callerLists, libs, book_count, member_count,
     book_adds, member_adds, email >>

\* What the program does not store: the record of the calls made so far.
history == << book_adds, member_adds >>

\* The program state as one value, for the operators below.
State ==
  [ books |-> books, members |-> members, lists |-> lists,
    callerLists |-> callerLists, libs |-> libs,
    book_count |-> book_count, member_count |-> member_count ]

Install(s) ==
  /\ books' = s.books
  /\ members' = s.members
  /\ lists' = s.lists
  /\ callerLists' = s.callerLists
  /\ libs' = s.libs
  /\ book_count' = s.book_count
  /\ member_count' = s.member_count

\* Member.books_borrowed of Member object m.
Held(s, m) == s.lists[s.members[m].books_borrowed]

Elems(seq) == { seq[i] : i \in DOMAIN seq }

\* Mutant of ListRemove: drops the first element, whatever it is (pop(0)).
ListRemove_first_element(seq, x) ==
  [ j \in 1..(Len(seq) - 1) |-> seq[j + 1] ]

\* list.remove(x): drops the first occurrence of x.
ListRemove(seq, x) ==
  LET i == CHOOSE k \in DOMAIN seq :
             /\ seq[k] = x
             /\ \A j \in 1..(k - 1) : seq[j] # x
  IN  [ j \in 1..(Len(seq) - 1) |-> IF j < i THEN seq[j] ELSE seq[j + 1] ]

\* ------------------------------------------------------------ str
UpperCase ==
  << "A", "B", "C", "D", "E", "F", "G", "H", "I", "J", "K", "L", "M",
     "N", "O", "P", "Q", "R", "S", "T", "U", "V", "W", "X", "Y", "Z" >>
LowerCase ==
  << "a", "b", "c", "d", "e", "f", "g", "h", "i", "j", "k", "l", "m",
     "n", "o", "p", "q", "r", "s", "t", "u", "v", "w", "x", "y", "z" >>

\* The characters str.split() with no argument splits on.
Whitespace == { " ", "\t", "\n", "\r" }

\* str.lower()
lower(str) ==
  [ i \in DOMAIN str |->
      IF \E k \in DOMAIN UpperCase : UpperCase[k] = str[i]
      THEN LowerCase[CHOOSE k \in DOMAIN UpperCase : UpperCase[k] = str[i]]
      ELSE str[i] ]

\* str.split() left to right: cur is the token being read, acc the tokens
\* read; a run of whitespace ends a token and yields no empty one.
RECURSIVE split_scan(_, _, _)
split_scan(str, cur, acc) ==
  IF str = << >>
  THEN IF cur = << >> THEN acc ELSE Append(acc, cur)
  ELSE IF Head(str) \in Whitespace
  THEN split_scan(Tail(str), << >>, IF cur = << >> THEN acc ELSE Append(acc, cur))
  ELSE split_scan(Tail(str), Append(cur, Head(str)), acc)

\* str.split(sep) left to right: every occurrence of sep ends a piece, empty
\* pieces included.
RECURSIVE split_sep_scan(_, _, _, _)
split_sep_scan(str, sep, cur, acc) ==
  IF str = << >>
  THEN Append(acc, cur)
  ELSE IF Head(str) = sep
  THEN split_sep_scan(Tail(str), sep, << >>, Append(acc, cur))
  ELSE split_sep_scan(Tail(str), sep, Append(cur, Head(str)), acc)

\* str.split(sep), sep one character
split_sep(str, sep) == split_sep_scan(str, sep, << >>, << >>)

\* str.split()
split(str) == split_scan(str, << >>, << >>)

\* ------------------------------------------------------------ Book
\* The fields of a Book the operations read or write.
BookInit(book_id, author, publication_year, is_available) ==
  [ book_id |-> book_id, author |-> author, is_available |-> is_available ]

\* Mutant of checkout: reports success without clearing the flag.
checkout_keeps_flag(s, b) ==
  IF ~s.books[b].is_available
  THEN [ s |-> s, ret |-> FALSE ]
  ELSE [ s |-> s, ret |-> TRUE ]

\* Mutant of checkout: every Book object carrying the identifier is marked,
\* as if availability were kept by identifier.
checkout_by_identifier(s, b) ==
  IF ~s.books[b].is_available
  THEN [ s |-> s, ret |-> FALSE ]
  ELSE [ s |-> [ s EXCEPT !.books =
                   [ k \in DOMAIN s.books |->
                       IF s.books[k].book_id = s.books[b].book_id
                       THEN [ s.books[k] EXCEPT !.is_available = FALSE ]
                       ELSE s.books[k] ] ],
         ret |-> TRUE ]

\* Mutant of checkout: no test of the flag, always succeeds.
checkout_no_guard(s, b) ==
  [ s |-> [ s EXCEPT !.books[b].is_available = FALSE ], ret |-> TRUE ]

\* Book.checkout()
checkout(s, b) ==
  IF ~s.books[b].is_available
  THEN [ s |-> s, ret |-> FALSE ]
  ELSE [ s |-> [ s EXCEPT !.books[b].is_available = FALSE ], ret |-> TRUE ]

\* Mutant of return_to_library: reports success without setting the flag.
return_to_library_keeps_flag(s, b) ==
  IF s.books[b].is_available
  THEN [ s |-> s, ret |-> FALSE ]
  ELSE [ s |-> s, ret |-> TRUE ]

\* Book.return_to_library()
return_to_library(s, b) ==
  IF s.books[b].is_available
  THEN [ s |-> s, ret |-> FALSE ]
  ELSE [ s |-> [ s EXCEPT !.books[b].is_available = TRUE ], ret |-> TRUE ]

\* Book.is_available = value (the property's setter)
set_is_available(s, b, value) ==
  [ s EXCEPT !.books[b].is_available = value ]

\* ------------------------------------------------------------ Member
\* Member.__init__: the test that raises ValueError("Invalid email format").
\* email.split('@')[1] is read only when '@' is in email.
Member_init_raises(e) ==
  IF "@" \notin Elems(e)
  THEN TRUE
  ELSE \/ e[1] = "@"
       \/ "." \notin Elems(split_sep(e, "@")[2])
       \/ Len(split_sep(split_sep(e, "@")[2], ".")[1]) = 0
       \/ LET labels == split_sep(split_sep(e, "@")[2], ".")
          IN  Len(labels[Len(labels)]) <= 1

\* Mutant of borrow_book: the limit test is > instead of >=.
borrow_book_off_by_one(s, m, b) ==
  IF Len(Held(s, m)) > MaxBorrow
  THEN [ s |-> s, ret |-> FALSE ]
  ELSE IF ~s.books[b].is_available
  THEN [ s |-> s, ret |-> FALSE ]
  ELSE LET r == checkout(s, b)
       IN  IF r.ret
           THEN [ s |-> [ r.s EXCEPT !.lists[s.members[m].books_borrowed] =
                                        Append(@, s.books[b].book_id) ],
                  ret |-> TRUE ]
           ELSE [ s |-> r.s, ret |-> FALSE ]

\* Mutant of borrow_book: the identifier is put at the front of the list
\* (insert(0, ...)) instead of the end.
borrow_book_at_front(s, m, b) ==
  IF Len(Held(s, m)) >= MaxBorrow
  THEN [ s |-> s, ret |-> FALSE ]
  ELSE IF ~s.books[b].is_available
  THEN [ s |-> s, ret |-> FALSE ]
  ELSE LET r == checkout(s, b)
       IN  IF r.ret
           THEN [ s |-> [ r.s EXCEPT !.lists[s.members[m].books_borrowed] =
                                        << s.books[b].book_id >> \o @ ],
                  ret |-> TRUE ]
           ELSE [ s |-> r.s, ret |-> FALSE ]

\* Mutant of borrow_book: the book's availability is not tested and the
\* result of book.checkout() is not looked at.
borrow_book_ignores_availability(s, m, b) ==
  IF Len(Held(s, m)) >= MaxBorrow
  THEN [ s |-> s, ret |-> FALSE ]
  ELSE [ s |-> [ checkout(s, b).s EXCEPT !.lists[s.members[m].books_borrowed] =
                                           Append(@, s.books[b].book_id) ],
         ret |-> TRUE ]

\* Mutant of borrow_book: records the identifier without calling
\* book.checkout(), so the book stays available.
borrow_book_no_checkout(s, m, b) ==
  IF Len(Held(s, m)) >= MaxBorrow
  THEN [ s |-> s, ret |-> FALSE ]
  ELSE IF ~s.books[b].is_available
  THEN [ s |-> s, ret |-> FALSE ]
  ELSE [ s |-> [ s EXCEPT !.lists[s.members[m].books_borrowed] =
                            Append(@, s.books[b].book_id) ],
         ret |-> TRUE ]

\* Member.borrow_book(book)
borrow_book(s, m, b) ==
  IF Len(Held(s, m)) >= MaxBorrow
  THEN [ s |-> s, ret |-> FALSE ]
  ELSE IF ~s.books[b].is_available
  THEN [ s |-> s, ret |-> FALSE ]
  ELSE LET r == checkout(s, b)
       IN  IF r.ret
           THEN [ s |-> [ r.s EXCEPT !.lists[s.members[m].books_borrowed] =
                                        Append(@, s.books[b].book_id) ],
                  ret |-> TRUE ]
           ELSE [ s |-> r.s, ret |-> FALSE ]

\* Mutant of Member.return_book: returns the book but keeps its identifier
\* in the held list.
Member_return_book_keeps_entry(s, m, b) ==
  IF s.books[b].book_id \notin Elems(Held(s, m))
  THEN [ s |-> s, ret |-> FALSE ]
  ELSE return_to_library(s, b)

\* Mutant of Member.return_book: no test that the member holds the book.
Member_return_book_no_check(s, m, b) ==
  LET r == return_to_library(s, b)
  IN  IF r.ret
      THEN [ s |-> [ r.s EXCEPT !.lists[s.members[m].books_borrowed] =
                                   IF s.books[b].book_id \in Elems(@)
                                   THEN ListRemove(@, s.books[b].book_id)
                                   ELSE @ ],
             ret |-> TRUE ]
      ELSE [ s |-> r.s, ret |-> FALSE ]

\* Mutant of Member.return_book: the identifier is removed whether or not
\* the book's return succeeds.
Member_return_book_removes_anyway(s, m, b) ==
  IF s.books[b].book_id \notin Elems(Held(s, m))
  THEN [ s |-> s, ret |-> FALSE ]
  ELSE LET r == return_to_library(s, b)
       IN  [ s |-> [ r.s EXCEPT !.lists[s.members[m].books_borrowed] =
                                   ListRemove(@, s.books[b].book_id) ],
             ret |-> r.ret ]

\* Member.return_book(book)
Member_return_book(s, m, b) ==
  IF s.books[b].book_id \notin Elems(Held(s, m))
  THEN [ s |-> s, ret |-> FALSE ]
  ELSE LET r == return_to_library(s, b)
       IN  IF r.ret
           THEN [ s |-> [ r.s EXCEPT !.lists[s.members[m].books_borrowed] =
                                        ListRemove(@, s.books[b].book_id) ],
                  ret |-> TRUE ]
           ELSE [ s |-> r.s, ret |-> FALSE ]

\* ------------------------------------------------------------ Library
\* Mutant of add_book: no test for a duplicate, the entry is overwritten.
add_book_overwrites(s, l, b) ==
  [ s |-> [ s EXCEPT !.libs[l].books = (s.books[b].book_id :> b) @@ @,
                     !.book_count = @ + 1 ],
    ret |-> TRUE ]

\* Mutant of add_book: the book is inserted but not counted.
add_book_no_count(s, l, b) ==
  IF s.books[b].book_id \in DOMAIN s.libs[l].books
  THEN [ s |-> s, ret |-> FALSE ]
  ELSE [ s |-> [ s EXCEPT !.libs[l].books = @ @@ (s.books[b].book_id :> b) ],
         ret |-> TRUE ]

\* Library.add_book(book)
add_book(s, l, b) ==
  IF s.books[b].book_id \in DOMAIN s.libs[l].books
  THEN [ s |-> s, ret |-> FALSE ]
  ELSE [ s |-> [ s EXCEPT !.libs[l].books = @ @@ (s.books[b].book_id :> b),
                          !.book_count = @ + 1 ],
         ret |-> TRUE ]

\* Library.add_member(member)
add_member(s, l, m) ==
  IF s.members[m].member_id \in DOMAIN s.libs[l].members
  THEN [ s |-> s, ret |-> FALSE ]
  ELSE [ s |-> [ s EXCEPT !.libs[l].members = @ @@ (s.members[m].member_id :> m),
                          !.member_count = @ + 1 ],
         ret |-> TRUE ]

\* Mutant of checkout_book: the hard-coded pair is not special-cased.
checkout_book_no_special(s, l, book_id, member_id) ==
  IF book_id \notin DOMAIN s.libs[l].books
  THEN [ s |-> s, ret |-> FALSE ]
  ELSE IF member_id \notin DOMAIN s.libs[l].members
  THEN [ s |-> s, ret |-> FALSE ]
  ELSE LET book == s.libs[l].books[book_id]
           member == s.libs[l].members[member_id]
       IN  IF ~s.books[book].is_available
           THEN [ s |-> s, ret |-> FALSE ]
           ELSE borrow_book(s, member, book)

\* Library.checkout_book(book_id, member_id)
checkout_book(s, l, book_id, member_id) ==
  IF book_id \notin DOMAIN s.libs[l].books
  THEN [ s |-> s, ret |-> FALSE ]
  ELSE IF member_id \notin DOMAIN s.libs[l].members
  THEN [ s |-> s, ret |-> FALSE ]
  ELSE LET book == s.libs[l].books[book_id]
           member == s.libs[l].members[member_id]
       IN  IF ~s.books[book].is_available
           THEN IF book_id = SpecialBook /\ member_id = SpecialMember
                THEN [ s |-> s, ret |-> TRUE ]
                ELSE [ s |-> s, ret |-> FALSE ]
           ELSE borrow_book(s, member, book)

\* Mutant of Library.return_book: an unknown member does not stop the
\* return, the book is handed back to the shelf.
return_book_no_member_check(s, l, book_id, member_id) ==
  IF book_id \notin DOMAIN s.libs[l].books
  THEN [ s |-> s, ret |-> FALSE ]
  ELSE IF member_id \notin DOMAIN s.libs[l].members
  THEN return_to_library(s, s.libs[l].books[book_id])
  ELSE LET book == s.libs[l].books[book_id]
           member == s.libs[l].members[member_id]
       IN  Member_return_book(s, member, book)

\* Library.return_book(book_id, member_id)
return_book(s, l, book_id, member_id) ==
  IF book_id \notin DOMAIN s.libs[l].books
  THEN [ s |-> s, ret |-> FALSE ]
  ELSE IF member_id \notin DOMAIN s.libs[l].members
  THEN [ s |-> s, ret |-> FALSE ]
  ELSE LET book == s.libs[l].books[book_id]
           member == s.libs[l].members[member_id]
       IN  Member_return_book(s, member, book)

\* A mapping a query hands to its caller: a dict of its own (own = "new",
\* its items fixed when it was built) or the very dict a library keeps
\* (own = that library), whose items are the library's at the time of reading.
NewDict(items) == [ own |-> "new", items |-> items ]

DictItems(s, d) == IF d.own = "new" THEN d.items ELSE s.libs[d.own].books

\* Mutant of get_available_books: when every book is available the
\* library's own dict is returned instead of a new one.
get_available_books_no_copy(s, l) ==
  IF \A book_id \in DOMAIN s.libs[l].books :
       s.books[s.libs[l].books[book_id]].is_available
  THEN [ s |-> s, ret |-> [ own |-> l, items |-> << >> ] ]
  ELSE [ s |-> s,
         ret |-> NewDict([ book_id \in
                             { k \in DOMAIN s.libs[l].books :
                                 s.books[s.libs[l].books[k]].is_available }
                           |-> s.libs[l].books[book_id] ]) ]

\* Library.get_available_books()
get_available_books(s, l) ==
  [ s |-> s,
    ret |-> NewDict([ book_id \in
                        { k \in DOMAIN s.libs[l].books :
                            s.books[s.libs[l].books[k]].is_available }
                      |-> s.libs[l].books[book_id] ]) ]

\* Mutant of search_book_by_author: substring match, as the title search.
search_book_by_author_substring(s, l, author) ==
  IF author = None
  THEN [ s |-> s, raised |-> "ValueError", ret |-> NewDict(<< >>) ]
  ELSE LET a == lower(author)
           Within(str) ==
             \E i \in 0..(Len(str) - Len(a)) :
               \A j \in 1..Len(a) : str[i + j] = a[j]
       IN  [ s |-> s, raised |-> "",
             ret |-> NewDict([ book_id \in
                                 { k \in DOMAIN s.libs[l].books :
                                     Within(lower(s.books[s.libs[l].books[k]].author)) }
                               |-> s.libs[l].books[book_id] ]) ]

\* Library.search_book_by_author(author)
search_book_by_author(s, l, author) ==
  IF author = None
  THEN [ s |-> s, raised |-> "ValueError", ret |-> NewDict(<< >>) ]
  ELSE LET a == lower(author)
       IN  [ s |-> s, raised |-> "",
             ret |-> NewDict([ book_id \in
                                 { k \in DOMAIN s.libs[l].books :
                                     a \in Elems(split(lower(
                                              s.books[s.libs[l].books[k]].author))) }
                               |-> s.libs[l].books[book_id] ]) ]

\* Library.get_book(book_id): the Book object, or None (written 0).
get_book(s, l, book_id) ==
  [ s |-> s,
    ret |-> IF book_id \notin DOMAIN s.libs[l].books
            THEN 0 ELSE s.libs[l].books[book_id] ]

\* Library.get_member(member_id): the Member object, or None (written 0).
get_member(s, l, member_id) ==
  [ s |-> s,
    ret |-> IF member_id \notin DOMAIN s.libs[l].members
            THEN 0 ELSE s.libs[l].members[member_id] ]

\* Library.get_all_books()
get_all_books(s, l) == [ s |-> s, ret |-> NewDict(s.libs[l].books) ]

\* Library.get_all_members()
get_all_members(s, l) == [ s |-> s, ret |-> NewDict(s.libs[l].members) ]

\* Library.get_book_count(), Library.get_member_count()
get_book_count(s) == [ s |-> s, ret |-> s.book_count ]
get_member_count(s) == [ s |-> s, ret |-> s.member_count ]

\* ------------------------------------------------------------ state machine
\* An operation returns [s |-> the state it leaves, ret |-> what it returns];
\* the action of a call, on objects that exist, installs s.
EmptyMap == [ k \in {} |-> 0 ]

\* Library(name, address), twice; nothing else constructed yet.
InitObjects ==
  /\ books = <<>>
  /\ members = <<>>
  /\ lists = <<>>
  /\ callerLists = {}
  /\ libs = [ l \in Libs |-> [ books |-> EmptyMap, members |-> EmptyMap ] ]
  /\ book_count = 0
  /\ member_count = 0
  /\ book_adds = 0
  /\ member_adds = 0

\* Members are constructed with a well-formed email.
Init == InitObjects /\ email = UserExampleCom

\* Members are constructed with any email.
InitEmail == InitObjects /\ email \in Emails

\* Book(book_id, ..., publication_year, is_available): raises ValueError,
\* constructing nothing, when the year is in the future.
NewBook(book_id, author, publication_year, is_available) ==
  /\ Len(books) < MaxBooks
  /\ IF publication_year > CurrentYear
     THEN UNCHANGED vars
     ELSE /\ books' = Append(books, BookInit(book_id, author, publication_year,
                                             is_available))
          /\ UNCHANGED << members, lists, callerLists, libs,
                          book_count, member_count, history, email >>

\* Member(member_id, name, email): books_borrowed is None, a fresh list.
NewMemberDefault(member_id) ==
  /\ Len(members) < MaxMembers
  /\ ~Member_init_raises(email)
  /\ lists' = Append(lists, <<>>)
  /\ members' = Append(members,
                  [ member_id |-> member_id, books_borrowed |-> Len(lists) + 1 ])
  /\ UNCHANGED << books, callerLists, libs, book_count, member_count, history, email >>

\* Member(member_id, name, email, books_borrowed) with a list the caller
\* has just built: the member keeps that very list.
NewMemberWithList(member_id, items) ==
  /\ Len(members) < MaxMembers
  /\ ~Member_init_raises(email)
  /\ lists' = Append(lists, items)
  /\ callerLists' = callerLists \cup { Len(lists) + 1 }
  /\ members' = Append(members,
                  [ member_id |-> member_id, books_borrowed |-> Len(lists) + 1 ])
  /\ UNCHANGED << books, libs, book_count, member_count, history, email >>

\* Member(member_id, name, email, books_borrowed) with a list the caller
\* has already given to another member: both members share it.
NewMemberSharedList(member_id, ref) ==
  /\ Len(members) < MaxMembers
  /\ ~Member_init_raises(email)
  /\ ref \in callerLists
  /\ members' = Append(members,
                  [ member_id |-> member_id, books_borrowed |-> ref ])
  /\ UNCHANGED << books, lists, callerLists, libs, book_count, member_count,
                  history, email >>

BookCheckout(b) ==
  /\ b \in DOMAIN books
  /\ Install(checkout(State, b).s)
  /\ UNCHANGED << history, email >>

BookReturnToLibrary(b) ==
  /\ b \in DOMAIN books
  /\ Install(return_to_library(State, b).s)
  /\ UNCHANGED << history, email >>

BookSetAvailable(b, value) ==
  /\ b \in DOMAIN books
  /\ Install(set_is_available(State, b, value))
  /\ UNCHANGED << history, email >>

MemberBorrowBook(m, b) ==
  /\ m \in DOMAIN members /\ b \in DOMAIN books
  /\ Install(borrow_book(State, m, b).s)
  /\ UNCHANGED << history, email >>

MemberReturnBook(m, b) ==
  /\ m \in DOMAIN members /\ b \in DOMAIN books
  /\ Install(Member_return_book(State, m, b).s)
  /\ UNCHANGED << history, email >>

LibraryAddBook(l, b) ==
  /\ l \in Libs /\ b \in DOMAIN books
  /\ Install(add_book(State, l, b).s)
  /\ book_adds' = book_adds + (IF add_book(State, l, b).ret THEN 1 ELSE 0)
  /\ UNCHANGED << member_adds, email >>

LibraryAddMember(l, m) ==
  /\ l \in Libs /\ m \in DOMAIN members
  /\ Install(add_member(State, l, m).s)
  /\ member_adds' = member_adds + (IF add_member(State, l, m).ret THEN 1 ELSE 0)
  /\ UNCHANGED << book_adds, email >>

LibraryCheckoutBook(l, book_id, member_id) ==
  /\ l \in Libs
  /\ Install(checkout_book(State, l, book_id, member_id).s)
  /\ UNCHANGED << history, email >>

LibraryReturnBook(l, book_id, member_id) ==
  /\ l \in Libs
  /\ Install(return_book(State, l, book_id, member_id).s)
  /\ UNCHANGED << history, email >>

LibraryGetAvailableBooks(l) ==
  /\ l \in Libs
  /\ Install(get_available_books(State, l).s)
  /\ UNCHANGED << history, email >>

LibrarySearchBookByAuthor(l, author) ==
  /\ l \in Libs
  /\ Install(search_book_by_author(State, l, author).s)
  /\ UNCHANGED << history, email >>

Construct ==
  \/ \E id \in BookIds, y \in PubYears, a \in BOOLEAN :
       NewBook(id, HarperLee, y, a)
  \/ \E id \in MemberIds : NewMemberDefault(id)
  \/ \E id \in MemberIds, items \in CallerLists : NewMemberWithList(id, items)
  \/ \E id \in MemberIds, ref \in DOMAIN lists : NewMemberSharedList(id, ref)

\* The callers that go through Library (the menu of main, the tests).
Next ==
  \/ Construct
  \/ \E l \in Libs, b \in DOMAIN books : LibraryAddBook(l, b)
  \/ \E l \in Libs, m \in DOMAIN members : LibraryAddMember(l, m)
  \/ \E l \in Libs, bid \in BookIds, mid \in MemberIds :
       LibraryCheckoutBook(l, bid, mid)
  \/ \E l \in Libs, bid \in BookIds, mid \in MemberIds :
       LibraryReturnBook(l, bid, mid)
  \/ \E l \in Libs : LibraryGetAvailableBooks(l)

Spec == Init /\ [][Next]_vars

\* A caller that drives Book and Member objects directly, without a Library.
NextObjects ==
  \/ Construct
  \/ \E b \in DOMAIN books : BookCheckout(b)
  \/ \E b \in DOMAIN books : BookReturnToLibrary(b)
  \/ \E b \in DOMAIN books, v \in BOOLEAN : BookSetAvailable(b, v)
  \/ \E m \in DOMAIN members, b \in DOMAIN books : MemberBorrowBook(m, b)
  \/ \E m \in DOMAIN members, b \in DOMAIN books : MemberReturnBook(m, b)

SpecObjects == Init /\ [][NextObjects]_vars

\* A caller that fills catalogs with books of every author and searches them.
NextSearch ==
  \/ \E id \in BookIds, au \in Authors, y \in PubYears, a \in BOOLEAN :
       NewBook(id, au, y, a)
  \/ \E l \in Libs, b \in DOMAIN books : LibraryAddBook(l, b)
  \/ \E l \in Libs, q \in AuthorQueries : LibrarySearchBookByAuthor(l, q)

SpecSearch == Init /\ [][NextSearch]_vars

\* A caller that constructs members with the email it was given; a
\* constructor that raises constructs nothing.
NewMemberRaises ==
  /\ Member_init_raises(email)
  /\ UNCHANGED vars

NextEmail ==
  \/ \E id \in MemberIds : NewMemberDefault(id)
  \/ \E id \in MemberIds, items \in CallerLists : NewMemberWithList(id, items)
  \/ \E id \in MemberIds, ref \in DOMAIN lists : NewMemberSharedList(id, ref)
  \/ NewMemberRaises

SpecEmail == InitEmail /\ [][NextEmail]_vars

\* ------------------------------------------------------------ vocabulary
NoDup(seq) == \A i, j \in DOMAIN seq : i # j => seq[i] # seq[j]

\* The Member objects whose held list contains the identifier.
Holders(s, book_id) ==
  { m \in DOMAIN s.members : book_id \in Elems(Held(s, m)) }

Result(s, ret) == [ s |-> s, ret |-> ret ]

\* Every call of a Library operation that can be made in state s.
LibraryCalls(s) ==
  { add_book(s, l, b) : l \in Libs, b \in DOMAIN s.books }
    \cup { add_member(s, l, m) : l \in Libs, m \in DOMAIN s.members }
    \cup { checkout_book(s, a[1], a[2], a[3]) : a \in Libs \X BookIds \X MemberIds }
    \cup { return_book(s, a[1], a[2], a[3]) : a \in Libs \X BookIds \X MemberIds }

\* Every direct call of a Member operation that can be made in state s.
MemberCalls(s) ==
  { borrow_book(s, m, b) : m \in DOMAIN s.members, b \in DOMAIN s.books }
    \cup { Member_return_book(s, m, b) :
             m \in DOMAIN s.members, b \in DOMAIN s.books }

\* The state every query by identifier or of a whole mapping or counter
\* that can be made in state s leaves.
QueryStates(s) ==
  { get_available_books(s, l).s : l \in Libs }
    \cup { get_book(s, l, book_id).s : l \in Libs, book_id \in BookIds }
    \cup { get_member(s, l, member_id).s : l \in Libs, member_id \in MemberIds }
    \cup { get_all_books(s, l).s : l \in Libs }
    \cup { get_all_members(s, l).s : l \in Libs }
    \cup { get_book_count(s).s, get_member_count(s).s }

\* Each catalog book is unavailable iff exactly one member holds its
\* identifier, and available iff none does.
CatalogConsistent(s) ==
  \A l \in Libs : \A book_id \in DOMAIN s.libs[l].books :
    LET b == s.libs[l].books[book_id]
        n == Cardinality(Holders(s, book_id))
    IN  /\ ~s.books[b].is_available <=> n = 1
        /\ s.books[b].is_available <=> n = 0

\* What construction with the default arguments and one Book object per
\* identifier establishes: no two Book objects share an identifier, no two
\* members share a list object, no held list repeats an identifier, and a
\* book is unavailable exactly when one member holds its identifier.
WellFormed(s) ==
  /\ \A b1, b2 \in DOMAIN s.books :
       b1 # b2 => s.books[b1].book_id # s.books[b2].book_id
  /\ \A m1, m2 \in DOMAIN s.members :
       m1 # m2 => s.members[m1].books_borrowed # s.members[m2].books_borrowed
  /\ \A m \in DOMAIN s.members : NoDup(Held(s, m))
  /\ \A b \in DOMAIN s.books :
       Cardinality(Holders(s, s.books[b].book_id)) =
         IF s.books[b].is_available THEN 0 ELSE 1

\* ------------------------------------------------------------ C1
\* C1 as claimed: in every reachable state every catalog book is unavailable
\* iff exactly one member holds its identifier and available iff none does.
\* Refuted: Book(..., is_available=False) added to a library is unavailable
\* and held by nobody.
C1Original == CatalogConsistent(State)

\* C1, amended: from a state in which no two Book objects share an
\* identifier, no two members share a list, no held list repeats an
\* identifier and every book is unavailable exactly when one member holds its
\* identifier, every call of Library.add_book, add_member, checkout_book and
\* return_book leaves a state of that kind, in which every catalog book is
\* unavailable iff exactly one member holds it and available iff none does.
C1Preserved ==
  WellFormed(State) =>
    \A r \in LibraryCalls(State) : WellFormed(r.s) /\ CatalogConsistent(r.s)

\* A well-formed state after a checkout: a catalog book is out, held by a
\* registered member whose list is the default one.
C1Witness ==
  /\ WellFormed(State)
  /\ \E l \in Libs :
       \E book_id \in DOMAIN libs[l].books, member_id \in DOMAIN libs[l].members :
         /\ ~books[libs[l].books[book_id]].is_available
         /\ Holders(State, book_id) = { libs[l].members[member_id] }
         /\ members[libs[l].members[member_id]].books_borrowed \notin callerLists

\* ------------------------------------------------------------ C2
\* C2 as claimed: a held list never has more than 3 entries, and a member
\* holding 3 books is refused by borrow_book and by checkout_book for every
\* book, the held list and the availability flags staying as they are.
\* Refuted: a Member may be constructed with a longer list, and
\* checkout_book returns true for the special-cased pair.
C2Original ==
  /\ \A m \in DOMAIN members : Len(Held(State, m)) <= MaxBorrow
  /\ \A m \in DOMAIN members :
       Len(Held(State, m)) = MaxBorrow =>
         /\ \A b \in DOMAIN books :
              LET r == borrow_book(State, m, b)
              IN  /\ r.ret = FALSE
                  /\ Held(r.s, m) = Held(State, m)
                  /\ r.s.books = books
         /\ \A l \in Libs, book_id \in BookIds :
              \A member_id \in DOMAIN libs[l].members :
                libs[l].members[member_id] = m =>
                  LET r == checkout_book(State, l, book_id, member_id)
                  IN  /\ r.ret = FALSE
                      /\ Held(r.s, m) = Held(State, m)
                      /\ r.s.books = books

\* C2, amended: no Library or Member operation makes a held list of at most
\* 3 entries longer than 3 (a Member may be constructed with a longer list);
\* and for a member holding 3 or more books borrow_book returns false and
\* changes nothing, and checkout_book changes nothing and returns false,
\* except for the pair B008/M005 with B008 registered and unavailable, for
\* which it returns true.
C2Theorem ==
  /\ \A m \in DOMAIN members :
       Len(Held(State, m)) <= MaxBorrow =>
         \A r \in LibraryCalls(State) \cup MemberCalls(State) :
           Len(Held(r.s, m)) <= MaxBorrow
  /\ \A m \in DOMAIN members :
       Len(Held(State, m)) >= MaxBorrow =>
         /\ \A b \in DOMAIN books :
              borrow_book(State, m, b) = Result(State, FALSE)
         /\ \A l \in Libs, book_id \in BookIds :
              \A member_id \in DOMAIN libs[l].members :
                libs[l].members[member_id] = m =>
                  checkout_book(State, l, book_id, member_id) =
                    Result(State,
                           /\ book_id \in DOMAIN libs[l].books
                           /\ ~books[libs[l].books[book_id]].is_available
                           /\ book_id = SpecialBook
                           /\ member_id = SpecialMember)

\* A registered member holds exactly 3 books, a registered book is
\* available, and the checkout is refused.
C2Witness ==
  \E l \in Libs :
    \E book_id \in DOMAIN libs[l].books, member_id \in DOMAIN libs[l].members :
      /\ Len(Held(State, libs[l].members[member_id])) = MaxBorrow
      /\ books[libs[l].books[book_id]].is_available
      /\ checkout_book(State, l, book_id, member_id) = Result(State, FALSE)

\* ------------------------------------------------------------ C3
\* C3: for a registered available book and a registered member holding fewer
\* than 3 books, checkout_book returns true, leaves the book unavailable and
\* the held list with the book's identifier appended; the same call repeated
\* at once returns false and changes nothing, unless the pair is B008/M005.
C3Theorem ==
  \A l \in Libs :
    \A book_id \in DOMAIN libs[l].books, member_id \in DOMAIN libs[l].members :
      LET b == libs[l].books[book_id]
          m == libs[l].members[member_id]
          r == checkout_book(State, l, book_id, member_id)
          again == checkout_book(r.s, l, book_id, member_id)
      IN  (books[b].is_available /\ Len(Held(State, m)) < MaxBorrow) =>
            /\ r.ret = TRUE
            /\ ~r.s.books[b].is_available
            /\ Held(r.s, m) = Append(Held(State, m), book_id)
            /\ ~(book_id = SpecialBook /\ member_id = SpecialMember) =>
                 again = Result(r.s, FALSE)

\* The state a successful checkout leaves (the book out, its identifier last
\* in the member's default list), in which the repeated call is refused.
C3Witness ==
  \E l \in Libs :
    \E book_id \in DOMAIN libs[l].books, member_id \in DOMAIN libs[l].members :
      LET b == libs[l].books[book_id]
          m == libs[l].members[member_id]
      IN  /\ ~books[b].is_available
          /\ members[m].books_borrowed \notin callerLists
          /\ Held(State, m) # <<>>
          /\ Held(State, m)[Len(Held(State, m))] = book_id
          /\ checkout_book(State, l, book_id, member_id) = Result(State, FALSE)

\* ------------------------------------------------------------ C4
\* C4 as claimed: whenever checkout_book(b, m) returns true, return_book(b, m)
\* called at once returns true and leaves the state the checkout started
\* from.  Refuted: the special-cased pair returns true without a checkout,
\* and list.remove drops the first occurrence of an identifier the member
\* already held.
C4Original ==
  \A l \in Libs, book_id \in BookIds, member_id \in MemberIds :
    LET r == checkout_book(State, l, book_id, member_id)
    IN  r.ret => return_book(r.s, l, book_id, member_id) = Result(State, TRUE)

\* C4, amended: whenever checkout_book(b, m) returns true for a book that was
\* available, return_book(b, m) called at once returns true and restores
\* every availability flag, every other list, both mappings and both
\* counters; m's held list is restored too if it did not already contain b's
\* identifier, and otherwise is the list after appending the identifier and
\* removing its first occurrence.  When checkout_book returns true for an
\* unavailable book (the pair B008/M005) it has changed nothing.
C4Theorem ==
  \A l \in Libs, book_id \in BookIds, member_id \in MemberIds :
    LET r == checkout_book(State, l, book_id, member_id)
        back == return_book(r.s, l, book_id, member_id)
    IN  r.ret =>
          LET b == libs[l].books[book_id]
              m == libs[l].members[member_id]
              ref == members[m].books_borrowed
          IN  IF books[b].is_available
              THEN /\ back.ret = TRUE
                   /\ back.s = [ State EXCEPT !.lists[ref] =
                                   ListRemove(Append(@, book_id), book_id) ]
                   /\ book_id \notin Elems(lists[ref]) => back.s = State
              ELSE /\ r.s = State
                   /\ book_id = SpecialBook /\ member_id = SpecialMember

\* A state in which the round trip is a real one: a registered member who
\* already holds the other book can check out an available book that is not
\* in the list, and the return leaves this state again.
C4Witness ==
  \E l \in Libs :
    \E book_id \in DOMAIN libs[l].books, member_id \in DOMAIN libs[l].members :
      LET b == libs[l].books[book_id]
          m == libs[l].members[member_id]
          r == checkout_book(State, l, book_id, member_id)
      IN  /\ books[b].is_available
          /\ Held(State, m) # <<>>
          /\ book_id \notin Elems(Held(State, m))
          /\ r.ret = TRUE
          /\ r.s # State
          /\ return_book(r.s, l, book_id, member_id) = Result(State, TRUE)

\* ------------------------------------------------------------ C5
\* C5 as claimed: for every book, checkout() then return_to_library() leaves
\* the availability flag at its value before the two calls, and a second
\* checkout() in a row returns false without changing the flag.  Refuted: for
\* a book that is unavailable, checkout() fails and return_to_library() then
\* makes it available.
C5Original ==
  \A b \in DOMAIN books :
    LET first == checkout(State, b)
        back == return_to_library(first.s, b)
        second == checkout(first.s, b)
    IN  /\ back.s.books[b].is_available = books[b].is_available
        /\ second.ret = FALSE
        /\ second.s.books[b].is_available = first.s.books[b].is_available

\* C5, amended: for every book that is available, checkout() then
\* return_to_library() both succeed and leave the state as it was; for a book
\* that is unavailable, checkout() fails, changing nothing, and
\* return_to_library() then succeeds and leaves it available; in both cases a
\* second checkout() in a row returns false and changes nothing.
C5Theorem ==
  \A b \in DOMAIN books :
    LET first == checkout(State, b)
        back == return_to_library(first.s, b)
        second == checkout(first.s, b)
    IN  /\ books[b].is_available =>
             first.ret = TRUE /\ back = Result(State, TRUE)
        /\ ~books[b].is_available =>
             /\ first = Result(State, FALSE)
             /\ back = Result([ State EXCEPT !.books[b].is_available = TRUE ], TRUE)
        /\ second = Result(first.s, FALSE)

\* Both cases at once: one book available, another one unavailable.
C5Witness ==
  \E b1, b2 \in DOMAIN books :
    /\ books[b1].is_available
    /\ ~books[b2].is_available
    /\ checkout(State, b1).ret = TRUE
    /\ checkout(State, b2).ret = FALSE

\* ------------------------------------------------------------ C6
\* C6: when a book's identifier is not in a member's held list, also when
\* another member holds it, Member.return_book and Library.return_book for
\* that book and member return false and change nothing.
C6Theorem ==
  /\ \A m \in DOMAIN members, b \in DOMAIN books :
       books[b].book_id \notin Elems(Held(State, m)) =>
         Member_return_book(State, m, b) = Result(State, FALSE)
  /\ \A l \in Libs :
       \A book_id \in DOMAIN libs[l].books, member_id \in DOMAIN libs[l].members :
         book_id \notin Elems(Held(State, libs[l].members[member_id])) =>
           return_book(State, l, book_id, member_id) = Result(State, FALSE)

\* A registered member holds an unavailable catalog book, another registered
\* member does not, and the return by that other member is refused.
C6Witness ==
  \E l \in Libs :
    \E book_id \in DOMAIN libs[l].books :
      \E holder, other \in DOMAIN libs[l].members :
        /\ ~books[libs[l].books[book_id]].is_available
        /\ book_id \in Elems(Held(State, libs[l].members[holder]))
        /\ book_id \notin Elems(Held(State, libs[l].members[other]))
        /\ return_book(State, l, book_id, other) = Result(State, FALSE)

\* ------------------------------------------------------------ C7
\* add_book and add_member with an identifier the library already maps
\* return false and change nothing: the same entry, the same keys, the same
\* counters.
RejectsDuplicate ==
  /\ \A l \in Libs, b \in DOMAIN books :
       books[b].book_id \in DOMAIN libs[l].books =>
         add_book(State, l, b) = Result(State, FALSE)
  /\ \A l \in Libs, m \in DOMAIN members :
       members[m].member_id \in DOMAIN libs[l].members =>
         add_member(State, l, m) = Result(State, FALSE)

\* A step leaves every identifier of every library mapped to the object it
\* was mapped to.
MappingsKept ==
  \A l \in Libs :
    /\ \A book_id \in DOMAIN libs[l].books :
         /\ book_id \in DOMAIN libs'[l].books
         /\ libs'[l].books[book_id] = libs[l].books[book_id]
    /\ \A member_id \in DOMAIN libs[l].members :
         /\ member_id \in DOMAIN libs'[l].members
         /\ libs'[l].members[member_id] = libs[l].members[member_id]

\* C7: a duplicate add_book or add_member returns false, overwrites nothing,
\* adds no key and counts nothing; and an identifier once mapped stays mapped
\* to the same object through every later operation.
C7Theorem == [](RejectsDuplicate) /\ [][MappingsKept]_vars

\* Each library maps an identifier to one object while a second object with
\* the same identifier exists, for books and for members, and adding the
\* second object is refused.
C7Witness ==
  \E l \in Libs :
    /\ \E b1, b2 \in DOMAIN books :
         /\ b1 # b2
         /\ books[b1].book_id = books[b2].book_id
         /\ books[b1].book_id \in DOMAIN libs[l].books
         /\ libs[l].books[books[b1].book_id] = b1
         /\ add_book(State, l, b2) = Result(State, FALSE)
    /\ \E m1, m2 \in DOMAIN members :
         /\ m1 # m2
         /\ members[m1].member_id = members[m2].member_id
         /\ members[m1].member_id \in DOMAIN libs[l].members
         /\ libs[l].members[members[m1].member_id] = m1
         /\ add_member(State, l, m2) = Result(State, FALSE)

\* ------------------------------------------------------------ C8
\* C8: checkout_book and return_book with a book identifier or a member
\* identifier the library does not map return false and change nothing,
\* whatever the state of the other entity.
C8Theorem ==
  \A l \in Libs, book_id \in BookIds, member_id \in MemberIds :
    (book_id \notin DOMAIN libs[l].books
       \/ member_id \notin DOMAIN libs[l].members) =>
      /\ checkout_book(State, l, book_id, member_id) = Result(State, FALSE)
      /\ return_book(State, l, book_id, member_id) = Result(State, FALSE)

\* A library maps a book that is out and held by a member it does not map
\* (another library maps that member), and maps a member with room while it
\* does not map the other book: the calls are refused in both situations.
C8Witness ==
  \E l \in Libs :
    /\ \E book_id \in DOMAIN libs[l].books, m \in DOMAIN members :
         /\ members[m].member_id \notin DOMAIN libs[l].members
         /\ ~books[libs[l].books[book_id]].is_available
         /\ book_id \in Elems(Held(State, m))
         /\ return_book(State, l, book_id, members[m].member_id) =
              Result(State, FALSE)
    /\ \E member_id \in DOMAIN libs[l].members, b \in DOMAIN books :
         /\ books[b].book_id \notin DOMAIN libs[l].books
         /\ books[b].is_available
         /\ Len(Held(State, libs[l].members[member_id])) < MaxBorrow
         /\ checkout_book(State, l, books[b].book_id, member_id) =
              Result(State, FALSE)

\* ------------------------------------------------------------ C9
\* C9: with both identifiers registered and the book unavailable,
\* checkout_book changes nothing and returns false, except for the pair
\* B008/M005, for which it returns true.
C9Theorem ==
  \A l \in Libs :
    \A book_id \in DOMAIN libs[l].books, member_id \in DOMAIN libs[l].members :
      ~books[libs[l].books[book_id]].is_available =>
        checkout_book(State, l, book_id, member_id) =
          Result(State, book_id = SpecialBook /\ member_id = SpecialMember)

\* One library maps B008, unavailable, and both members: the call returns
\* true for M005 and false for M001.
C9Witness ==
  \E l \in Libs :
    /\ SpecialBook \in DOMAIN libs[l].books
    /\ MemberIds \subseteq DOMAIN libs[l].members
    /\ ~books[libs[l].books[SpecialBook]].is_available
    /\ checkout_book(State, l, SpecialBook, SpecialMember) = Result(State, TRUE)
    /\ checkout_book(State, l, SpecialBook, "M001") = Result(State, FALSE)

\* ------------------------------------------------------------ C10
\* No two Book objects share an identifier, no held list repeats an
\* identifier, no available book's identifier is in a held list and no
\* identifier is in two different list objects.
HeldSound(s) ==
  /\ \A b1, b2 \in DOMAIN s.books :
       b1 # b2 => s.books[b1].book_id # s.books[b2].book_id
  /\ \A m \in DOMAIN s.members : NoDup(Held(s, m))
  /\ \A b \in DOMAIN s.books :
       Cardinality({ s.members[m].books_borrowed :
                       m \in Holders(s, s.books[b].book_id) })
         <= IF s.books[b].is_available THEN 0 ELSE 1

\* C10 as claimed, for the members constructed with the default list: no
\* held list contains an identifier twice, also when the member is
\* registered in two libraries or two Book objects carry one identifier.
\* Refuted: a member borrows two Book objects with the same identifier, one
\* from each library, and holds the identifier twice.
C10Original ==
  \A m \in DOMAIN members :
    members[m].books_borrowed \notin callerLists => NoDup(Held(State, m))

\* C10, amended: from a state in which no two Book objects share an
\* identifier, no held list repeats an identifier, no available book's
\* identifier is held and no identifier is in two list objects, every call
\* of checkout_book, return_book, Member.borrow_book and Member.return_book
\* leaves a state of that kind; so no held list ever contains an identifier
\* twice when books are constructed with distinct identifiers and members
\* with the default list, in however many libraries they are registered.
C10Theorem ==
  HeldSound(State) =>
    \A r \in LibraryCalls(State) \cup MemberCalls(State) : HeldSound(r.s)

\* A member with a default list holds two different identifiers, borrowed
\* from two libraries, in a state of the kind C10 is about.
C10Witness ==
  /\ HeldSound(State)
  /\ \E m \in DOMAIN members :
       /\ members[m].books_borrowed \notin callerLists
       /\ Len(Held(State, m)) = 2
       /\ \E l1, l2 \in Libs :
            /\ l1 # l2
            /\ members[m].member_id \in DOMAIN libs[l1].members
            /\ members[m].member_id \in DOMAIN libs[l2].members
            /\ libs[l1].members[members[m].member_id] = m
            /\ libs[l2].members[members[m].member_id] = m
            /\ Held(State, m)[1] \in DOMAIN libs[l1].books
            /\ Held(State, m)[2] \in DOMAIN libs[l2].books
            /\ Held(State, m)[2] \notin DOMAIN libs[l1].books

\* ------------------------------------------------------------ C11
\* The counters equal the numbers of add_book and add_member calls that have
\* returned True, whichever library they were made on; a call of add_book
\* (add_member) that returns True adds one to book_count (member_count) and
\* leaves the other counter; every other call (a refused add, a checkout, a
\* return, a query) leaves both.
CountersMatch ==
  /\ book_count = book_adds
  /\ member_count = member_adds
  /\ \A l \in Libs, b \in DOMAIN books :
       LET r == add_book(State, l, b)
       IN  /\ r.s.book_count = book_count + (IF r.ret THEN 1 ELSE 0)
           /\ r.s.member_count = member_count
  /\ \A l \in Libs, m \in DOMAIN members :
       LET r == add_member(State, l, m)
       IN  /\ r.s.member_count = member_count + (IF r.ret THEN 1 ELSE 0)
           /\ r.s.book_count = book_count
  /\ \A a \in Libs \X BookIds \X MemberIds :
       \A r \in { checkout_book(State, a[1], a[2], a[3]),
                  return_book(State, a[1], a[2], a[3]) } :
         r.s.book_count = book_count /\ r.s.member_count = member_count
  /\ \A t \in QueryStates(State) :
       t.book_count = book_count /\ t.member_count = member_count

\* A step never decreases a counter.
CountersGrow ==
  /\ book_count' >= book_count
  /\ member_count' >= member_count

\* C11: book_count (member_count) is one counter for all Library instances,
\* never decreases, and always equals the number of add_book (add_member)
\* calls that returned true on any instance; no other operation changes it.
C11Theorem == [](CountersMatch) /\ [][CountersGrow]_vars

\* Both libraries have taken adds, the one counter has counted them all, and
\* a further add is refused as a duplicate.
C11Witness ==
  /\ book_count = 3
  /\ book_adds = 3
  /\ member_count = 2
  /\ \A l \in Libs : DOMAIN libs[l].books # {} /\ DOMAIN libs[l].members # {}
  /\ \E l \in Libs, b \in DOMAIN books : add_book(State, l, b).ret = FALSE

\* ------------------------------------------------------------ C12
\* The identifiers of library l's catalog books whose flag is true in s.
AvailableIds(s, l) ==
  { book_id \in DOMAIN s.libs[l].books :
      s.books[s.libs[l].books[book_id]].is_available }

\* C12: get_available_books changes nothing and returns a mapping whose keys
\* are exactly the identifiers of the catalog's books that are available at
\* the call, each mapped to the catalog's Book object; and the keys of the
\* returned mapping are the same after any add_book, add_member,
\* checkout_book or return_book call made later.
C12Theorem ==
  \A l \in Libs :
    LET r == get_available_books(State, l)
    IN  /\ r.s = State
        /\ DOMAIN DictItems(State, r.ret) = AvailableIds(State, l)
        /\ \A book_id \in AvailableIds(State, l) :
             DictItems(State, r.ret)[book_id] = libs[l].books[book_id]
        /\ \A later \in LibraryCalls(State) :
             DOMAIN DictItems(later.s, r.ret) = AvailableIds(State, l)

\* A catalog holds an available and an unavailable book, and a checkout_book
\* that succeeds can be made after the query, changing which of the
\* catalog's books are available.
C12Witness ==
  \E l \in Libs :
    /\ AvailableIds(State, l) # {}
    /\ AvailableIds(State, l) # DOMAIN libs[l].books
    /\ \E a \in Libs \X BookIds \X MemberIds :
         LET later == checkout_book(State, a[1], a[2], a[3])
         IN  later.ret /\ AvailableIds(later.s, l) # AvailableIds(State, l)

\* ------------------------------------------------------------ C13
\* local@domain.tld: one "@", something before it, and after it labels
\* separated by ".", at least two of them, the first not empty and the last
\* of at least 2 characters.
EmailForm(e) ==
  \E at \in DOMAIN e :
    /\ e[at] = "@"
    /\ \A i \in DOMAIN e : e[i] = "@" => i = at
    /\ at > 1
    /\ Len(e) - at >= 2
    /\ \E dot \in (at + 1)..Len(e) : e[dot] = "."
    /\ e[at + 1] # "."
    /\ e[Len(e)] # "." /\ e[Len(e) - 1] # "."

\* C13 as claimed: Member construction succeeds iff the email has the form
\* local@domain.tld with a non-empty local part, a non-empty domain label and
\* a top-level label of at least 2 characters; "user@.com" and "user@domain.c"
\* are rejected and "user@example.com" is accepted.  Refuted: what follows a
\* second "@" is never looked at, so "a@a.aa@" constructs a Member.
C13Original ==
  /\ Member_init_raises(email) <=> ~EmailForm(email)
  /\ members # << >> => EmailForm(email)
  /\ Member_init_raises(<< "u", "s", "e", "r", "@", ".", "c", "o", "m" >>)
  /\ Member_init_raises(<< "u", "s", "e", "r", "@", "d", "o", "m", "a", "i", "n",
                           ".", "c" >>)
  /\ ~Member_init_raises(UserExampleCom)

\* A Member has been constructed with an email that holds two "@".
C13Witness ==
  /\ members # << >>
  /\ Cardinality({ i \in DOMAIN email : email[i] = "@" }) = 2
  /\ ~EmailForm(email)

\* ------------------------------------------------------------ C14
\* word is one of the whitespace-separated tokens of str: it is not empty,
\* holds no whitespace, and stands in str between whitespace or the ends.
IsToken(word, str) ==
  /\ word # << >>
  /\ \A i \in DOMAIN word : word[i] \notin Whitespace
  /\ \E i \in 1..(Len(str) - Len(word) + 1) :
       /\ \A j \in DOMAIN word : str[i + j - 1] = word[j]
       /\ i = 1 \/ str[i - 1] \in Whitespace
       /\ i + Len(word) - 1 = Len(str) \/ str[i + Len(word)] \in Whitespace

\* The identifiers search_book_by_author(author) returns for library l.
Found(l, author) == DOMAIN DictItems(State, search_book_by_author(State, l, author).ret)

\* C14: search_book_by_author(q) changes nothing; for q = None it raises
\* ValueError; otherwise it returns exactly the catalog books for which the
\* lower-cased q is one of the whitespace-separated tokens of the lower-cased
\* author field, each under its identifier: "lee" finds a book by "Harper
\* Lee" and none by "Leeroy Jenkins", and "har" does not find "Harper Lee".
C14Theorem ==
  \A l \in Libs :
    /\ \A q \in AuthorQueries :
         LET r == search_book_by_author(State, l, q)
         IN  /\ r.s = State
             /\ IF q = None
                THEN r.raised = "ValueError"
                ELSE /\ r.raised = ""
                     /\ Found(l, q) =
                          { book_id \in DOMAIN libs[l].books :
                              IsToken(lower(q),
                                      lower(books[libs[l].books[book_id]].author)) }
                     /\ \A book_id \in Found(l, q) :
                          DictItems(State, r.ret)[book_id] = libs[l].books[book_id]
    /\ \A book_id \in DOMAIN libs[l].books :
         LET author == books[libs[l].books[book_id]].author
         IN  /\ author = HarperLee =>
                  /\ book_id \in Found(l, << "l", "e", "e" >>)
                  /\ book_id \notin Found(l, << "h", "a", "r" >>)
             /\ author = LeeroyJenkins =>
                  book_id \notin Found(l, << "l", "e", "e" >>)

\* One catalog holds a book by "Harper Lee" and a book by "Leeroy Jenkins":
\* "lee" finds the first only, "har" finds nothing, None raises.
C14Witness ==
  \E l \in Libs :
    \E b1, b2 \in DOMAIN libs[l].books :
      /\ books[libs[l].books[b1]].author = HarperLee
      /\ books[libs[l].books[b2]].author = LeeroyJenkins
      /\ Found(l, << "l", "e", "e" >>) = { b1 }
      /\ Found(l, << "h", "a", "r" >>) = {}
      /\ search_book_by_author(State, l, None).raised = "ValueError"
      /\ book_count > 0

\* ------------------------------------------------------------ C15
\* new is old with the first occurrence of x taken out and every other entry
\* where it was, in the same order.
FirstTakenOut(new, old, x) ==
  \E i \in DOMAIN old :
    /\ old[i] = x
    /\ \A j \in 1..(i - 1) : old[j] # x
    /\ Len(new) = Len(old) - 1
    /\ \A j \in 1..(i - 1) : new[j] = old[j]
    /\ \A j \in i..Len(new) : new[j] = old[j + 1]

\* C15: a borrow_book that returns true leaves the held list as it was with
\* the book's identifier appended at the end; a Member.return_book or
\* Library.return_book that returns true leaves it as it was with that
\* identifier taken out (its first occurrence, if the list repeats it) and
\* the remaining identifiers in the order they had.
C15Theorem ==
  /\ \A m \in DOMAIN members, b \in DOMAIN books :
       /\ LET r == borrow_book(State, m, b)
          IN  r.ret => Held(r.s, m) = Held(State, m) \o << books[b].book_id >>
       /\ LET r == Member_return_book(State, m, b)
          IN  r.ret => /\ FirstTakenOut(Held(r.s, m), Held(State, m), books[b].book_id)
                       /\ NoDup(Held(State, m)) =>
                            books[b].book_id \notin Elems(Held(r.s, m))
  /\ \A l \in Libs :
       \A book_id \in DOMAIN libs[l].books, member_id \in DOMAIN libs[l].members :
         LET m == libs[l].members[member_id]
             r == return_book(State, l, book_id, member_id)
         IN  r.ret => FirstTakenOut(Held(r.s, m), Held(State, m), book_id)

\* A member with the default list has borrowed two books, one after the
\* other, and can return the one borrowed first: the one borrowed second is
\* then the whole list.
C15Witness ==
  \E l \in Libs :
    \E book_id \in DOMAIN libs[l].books, member_id \in DOMAIN libs[l].members :
      LET m == libs[l].members[member_id]
          r == return_book(State, l, book_id, member_id)
      IN  /\ members[m].books_borrowed \notin callerLists
          /\ Len(Held(State, m)) = 2
          /\ Held(State, m)[1] = book_id
          /\ Held(State, m)[2] # book_id
          /\ r.ret
          /\ Held(r.s, m) = << Held(State, m)[2] >>

\* ------------------------------------------------------------ C16
\* C16: when a book's identifier is in a member's held list, return_book with
\* a Book object that is available returns false and changes nothing; with a
\* Book object that is unavailable it returns true, makes that book
\* available, takes the identifier (its first occurrence) out of the held
\* list and changes nothing else.
C16Theorem ==
  \A m \in DOMAIN members, b \in DOMAIN books :
    books[b].book_id \in Elems(Held(State, m)) =>
      LET r == Member_return_book(State, m, b)
          ref == members[m].books_borrowed
      IN  IF books[b].is_available
          THEN r = Result(State, FALSE)
          ELSE /\ r.ret = TRUE
               /\ r.s.books = [ books EXCEPT ![b].is_available = TRUE ]
               /\ FirstTakenOut(r.s.lists[ref], lists[ref], books[b].book_id)
               /\ Len(r.s.lists[ref]) = Len(lists[ref]) - 1
               /\ r.s = [ State EXCEPT !.books = r.s.books,
                                       !.lists[ref] = r.s.lists[ref] ]

\* A member with the default list holds an identifier that two Book objects
\* carry, one unavailable (the one borrowed) and one available: return_book
\* is refused for the available one and succeeds for the other.
C16Witness ==
  \E m \in DOMAIN members :
    \E b1, b2 \in DOMAIN books :
      /\ members[m].books_borrowed \notin callerLists
      /\ books[b1].book_id = books[b2].book_id
      /\ Held(State, m) = << books[b1].book_id >>
      /\ ~books[b1].is_available
      /\ books[b2].is_available
      /\ Member_return_book(State, m, b2) = Result(State, FALSE)
      /\ Member_return_book(State, m, b1).ret = TRUE

\* ------------------------------------------------------------ C17
\* The number of entries of seq equal to x.
Count(seq, x) == Cardinality({ i \in DOMAIN seq : seq[i] = x })

\* C17 as claimed: whenever checkout_book(b, m) returns true, b is then
\* unavailable and its identifier is in m's held list; whenever
\* return_book(b, m) returns true, b is then available and its identifier is
\* not in m's held list.  Refuted: checkout_book returns true for the pair
\* B008/M005 when B008 is out, held by another member or by nobody; and a
\* return_book takes one entry out of a list that repeats the identifier.
C17Original ==
  \A l \in Libs :
    \A book_id \in DOMAIN libs[l].books, member_id \in DOMAIN libs[l].members :
      LET b == libs[l].books[book_id]
          m == libs[l].members[member_id]
          co == checkout_book(State, l, book_id, member_id)
          re == return_book(State, l, book_id, member_id)
      IN  /\ co.ret => /\ ~co.s.books[b].is_available
                        /\ book_id \in Elems(Held(co.s, m))
          /\ re.ret => /\ re.s.books[b].is_available
                        /\ book_id \notin Elems(Held(re.s, m))

\* C17, amended: checkout_book and return_book return true only for
\* registered identifiers.  Whenever checkout_book(b, m) returns true, b is
\* then unavailable; if b was available before the call, its identifier is
\* the last entry of m's held list; if not, the pair is B008/M005 and nothing
\* has changed, so the identifier is in m's list only if it already was.
\* Whenever return_book(b, m) returns true, b is then available and m's held
\* list holds the identifier once less than before: not at all, if it held
\* it once.
C17Theorem ==
  \A l \in Libs, book_id \in BookIds, member_id \in MemberIds :
    LET co == checkout_book(State, l, book_id, member_id)
        re == return_book(State, l, book_id, member_id)
    IN  (co.ret \/ re.ret) =>
          /\ book_id \in DOMAIN libs[l].books
          /\ member_id \in DOMAIN libs[l].members
          /\ LET b == libs[l].books[book_id]
                 m == libs[l].members[member_id]
             IN  /\ co.ret =>
                      /\ ~co.s.books[b].is_available
                      /\ IF books[b].is_available
                         THEN /\ Held(co.s, m) # << >>
                              /\ Held(co.s, m)[Len(Held(co.s, m))] = book_id
                         ELSE /\ book_id = SpecialBook
                              /\ member_id = SpecialMember
                              /\ co.s = State
                 /\ re.ret =>
                      /\ re.s.books[b].is_available
                      /\ Count(Held(re.s, m), book_id) =
                           Count(Held(State, m), book_id) - 1
                      /\ Count(Held(State, m), book_id) = 1 =>
                           book_id \notin Elems(Held(re.s, m))

\* B008 is out, held by M001 in a default list; M005 is registered in the
\* same library and holds nothing: return_book(B008, M001) succeeds and
\* checkout_book(B008, M005) returns true without changing anything.
C17Witness ==
  \E l \in Libs :
    /\ SpecialBook \in DOMAIN libs[l].books
    /\ MemberIds \subseteq DOMAIN libs[l].members
    /\ LET b == libs[l].books[SpecialBook]
           m1 == libs[l].members["M001"]
           m5 == libs[l].members[SpecialMember]
       IN  /\ ~books[b].is_available
           /\ members[m1].books_borrowed \notin callerLists
           /\ Held(State, m1) = << SpecialBook >>
           /\ Held(State, m5) = << >>
           /\ return_book(State, l, SpecialBook, "M001").ret = TRUE
           /\ checkout_book(State, l, SpecialBook, SpecialMember) =
                Result(State, TRUE)

\* ------------------------------------------------------------ C18
\* No identifier is in the held lists of two different Member objects.
ExclusiveHolders(s) ==
  \A m1, m2 \in DOMAIN s.members :
    m1 # m2 => Elems(Held(s, m1)) \cap Elems(Held(s, m2)) = {}

\* For every library, no identifier is in the held lists of two different
\* members registered in it.
LibraryExclusive(s) ==
  \A l \in Libs :
    \A id1, id2 \in DOMAIN s.libs[l].members :
      id1 # id2 =>
        Elems(Held(s, s.libs[l].members[id1]))
          \cap Elems(Held(s, s.libs[l].members[id2])) = {}

\* No two Book objects share an identifier, no two members share a list
\* object, no held list repeats an identifier, no available book's
\* identifier is held, and no identifier is held by two members.
MutexSound(s) ==
  /\ \A b1, b2 \in DOMAIN s.books :
       b1 # b2 => s.books[b1].book_id # s.books[b2].book_id
  /\ \A m1, m2 \in DOMAIN s.members :
       m1 # m2 => s.members[m1].books_borrowed # s.members[m2].books_borrowed
  /\ \A m \in DOMAIN s.members : NoDup(Held(s, m))
  /\ \A b \in DOMAIN s.books :
       s.books[b].is_available => Holders(s, s.books[b].book_id) = {}
  /\ ExclusiveHolders(s)

\* C18 as claimed, for the members constructed with the default list: in
\* every reachable state and for every library, no identifier is in the held
\* lists of two different members registered in that library.  Refuted: two
\* Book objects with one identifier, one in each library, are checked out by
\* two members registered in both libraries.
C18Original ==
  \A l \in Libs :
    \A id1, id2 \in DOMAIN libs[l].members :
      LET m1 == libs[l].members[id1]
          m2 == libs[l].members[id2]
      IN  ( /\ id1 # id2
            /\ members[m1].books_borrowed \notin callerLists
            /\ members[m2].books_borrowed \notin callerLists ) =>
            Elems(Held(State, m1)) \cap Elems(Held(State, m2)) = {}

\* C18, amended: from a state in which no two Book objects share an
\* identifier, no two members share a list object, no held list repeats an
\* identifier, no available book's identifier is held and no identifier is
\* held by two members, every call of add_book, add_member, checkout_book,
\* return_book, Member.borrow_book and Member.return_book leaves a state of
\* that kind; in such a state no identifier is in the held lists of two
\* different members of any library, in however many libraries the members
\* and books are registered.
C18Theorem ==
  MutexSound(State) =>
    /\ LibraryExclusive(State)
    /\ \A r \in LibraryCalls(State) \cup MemberCalls(State) :
         MutexSound(r.s) /\ LibraryExclusive(r.s)

\* Two members with default lists are registered in both libraries, each
\* holds one book, a different one, and one of the books is in both
\* catalogs; the state is of the kind C18 is about.
C18Witness ==
  /\ MutexSound(State)
  /\ \A l \in Libs : DOMAIN libs[l].members = MemberIds
  /\ \E book_id \in BookIds : \A l \in Libs : book_id \in DOMAIN libs[l].books
  /\ \E m1, m2 \in DOMAIN members :
       /\ m1 # m2
       /\ members[m1].books_borrowed \notin callerLists
       /\ members[m2].books_borrowed \notin callerLists
       /\ Len(Held(State, m1)) = 1
       /\ Len(Held(State, m2)) = 1
       /\ Held(State, m1) # Held(State, m2)
       /\ \A l \in Libs : { libs[l].members[id] : id \in MemberIds } = { m1, m2 }

\* ------------------------------------------------------------ C19
\* C19 as claimed: checkout_book(b, m) and return_book(b, m), whatever they
\* return, leave the flag of every book other than b, the held list of every
\* member other than m, both mappings of every library and both counters;
\* and they change b's flag iff they change m's held list.  Refuted: a member
\* constructed with the list object of m holds what m holds.
C19Original ==
  \A l \in Libs, book_id \in BookIds, member_id \in MemberIds :
    \A r \in { checkout_book(State, l, book_id, member_id),
               return_book(State, l, book_id, member_id) } :
      /\ \A b \in DOMAIN books :
           (book_id \in DOMAIN libs[l].books => b # libs[l].books[book_id]) =>
             r.s.books[b] = books[b]
      /\ \A m \in DOMAIN members :
           (member_id \in DOMAIN libs[l].members => m # libs[l].members[member_id]) =>
             Held(r.s, m) = Held(State, m)
      /\ r.s.libs = libs
      /\ r.s.book_count = book_count /\ r.s.member_count = member_count
      /\ (book_id \in DOMAIN libs[l].books /\ member_id \in DOMAIN libs[l].members) =>
           LET b == libs[l].books[book_id]
               m == libs[l].members[member_id]
           IN  r.s.books[b].is_available # books[b].is_available
                 <=> Held(r.s, m) # Held(State, m)

\* C19, amended: checkout_book(b, m) and return_book(b, m), whatever they
\* return, change at most the flag of the catalog's Book object b and the
\* list object of m: every other Book object, every other list object, the
\* Member objects, the mappings and the counters stay, so the held list of
\* another member stays unless that member was constructed with m's list
\* object, in which case it changes as m's does; and b's flag changes iff
\* m's held list does.  With an unregistered identifier nothing changes.
C19Theorem ==
  \A l \in Libs, book_id \in BookIds, member_id \in MemberIds :
    \A r \in { checkout_book(State, l, book_id, member_id),
               return_book(State, l, book_id, member_id) } :
      IF book_id \in DOMAIN libs[l].books /\ member_id \in DOMAIN libs[l].members
      THEN LET b == libs[l].books[book_id]
               m == libs[l].members[member_id]
               ref == members[m].books_borrowed
           IN  /\ r.s = [ State EXCEPT
                            !.books[b].is_available = r.s.books[b].is_available,
                            !.lists[ref] = r.s.lists[ref] ]
               /\ \A other \in DOMAIN members :
                    Held(r.s, other) =
                      IF members[other].books_borrowed = ref
                      THEN Held(r.s, m) ELSE Held(State, other)
               /\ r.s.books[b].is_available # books[b].is_available
                     <=> Held(r.s, m) # Held(State, m)
      ELSE r.s = State

\* Two members registered in one library were constructed with one list
\* object; a return_book by one of them succeeds and changes what the other
\* holds, while the other book of the catalog keeps its flag.
C19Witness ==
  \E l \in Libs :
    \E book_id \in DOMAIN libs[l].books, id1, id2 \in DOMAIN libs[l].members :
      LET m1 == libs[l].members[id1]
          m2 == libs[l].members[id2]
          r == return_book(State, l, book_id, id1)
      IN  /\ m1 # m2
          /\ members[m1].books_borrowed = members[m2].books_borrowed
          /\ Cardinality(DOMAIN libs[l].books) = 2
          /\ r.ret = TRUE
          /\ Held(r.s, m2) # Held(State, m2)
          /\ Held(r.s, m2) = Held(r.s, m1)

====
